---- MODULE Spec2Model ----
(***************************************************************************)
(* csv_wordcount.py: word counts on columns of a CSV file.                 *)
(*                                                                         *)
(* A Python str is a sequence of one-character strings; a list is a        *)
(* sequence; a dict is the sequence of its <<key, value>> items in         *)
(* iteration (insertion) order.  csv.reader is the sequence of rows it     *)
(* yields, each row the sequence of its fields.                            *)
(***************************************************************************)
EXTENDS Integers, Sequences, FiniteSets, TLC

\* ------------------------------------------------------------------ bounds

\* Longest string given to tidy_string_def in SpecTidy.
MaxLen == 4

\* Most data rows (rows after the header) in the CSV file.
MaxRows == 2

\* Most successive applications of tidy_string_def in SpecTidy.
MaxRuns == 2

\* ----------------------------------------------------------------- strings

\* str.lower() on the characters the model's inputs are written with.
LowerChar(ch) ==
    CASE ch = "A" -> "a"
      [] ch = "B" -> "b"
      [] ch = "C" -> "c"
      [] ch = "D" -> "d"
      [] ch = "E" -> "e"
      [] ch = "F" -> "f"
      [] ch = "G" -> "g"
      [] ch = "O" -> "o"
      [] ch = "Á" -> "á"
      [] ch = "É" -> "é"
      [] OTHER -> ch

Lower(s) == [i \in 1..Len(s) |-> LowerChar(s[i])]

\* The characters str.strip() removes.
Whitespace == {" ", "\t", "\n"}

RECURSIVE LStrip(_)
LStrip(s) ==
    IF s # <<>> /\ Head(s) \in Whitespace THEN LStrip(Tail(s)) ELSE s

RECURSIVE RStrip(_)
RStrip(s) ==
    IF s # <<>> /\ s[Len(s)] \in Whitespace
    THEN RStrip(SubSeq(s, 1, Len(s) - 1))
    ELSE s

Strip(s) == RStrip(LStrip(s))

\* str.replace(old, new): the non-overlapping occurrences of old, found left
\* to right, each replaced by new; an empty old matches before every
\* character and at the end.
RECURSIVE ReplaceFrom(_, _, _)
ReplaceFrom(s, old, new) ==
    IF Len(s) < Len(old) THEN s
    ELSE IF SubSeq(s, 1, Len(old)) = old
         THEN new \o ReplaceFrom(SubSeq(s, Len(old) + 1, Len(s)), old, new)
         ELSE <<Head(s)>> \o ReplaceFrom(Tail(s), old, new)

RECURSIVE Interleave(_, _)
Interleave(s, new) ==
    IF s = <<>> THEN new ELSE new \o <<Head(s)>> \o Interleave(Tail(s), new)

Replace(s, old, new) ==
    IF old = <<>> THEN Interleave(s, new) ELSE ReplaceFrom(s, old, new)

\* str.split(","): the pieces between the commas; always at least one piece.
RECURSIVE Split(_)
Split(s) ==
    IF \A i \in 1..Len(s) : s[i] # ","
    THEN <<s>>
    ELSE LET k == CHOOSE i \in 1..Len(s) :
                      s[i] = "," /\ \A j \in 1..(i - 1) : s[j] # ","
         IN  <<SubSeq(s, 1, k - 1)>> \o Split(SubSeq(s, k + 1, Len(s)))

\* -------------------------------------------------------- replaceable_chars

\* The global table: its items in insertion order, the replacement first.
replaceable_chars ==
    << << <<"a">>, << <<"á">>, <<"ä">>, <<"à">> >> >>,
       << <<"e">>, << <<"é">>, <<"ë">>, <<"è">> >> >>,
       << <<"i">>, << <<"í">>, <<"ï">>, <<"ì">> >> >>,
       << <<"o">>, << <<"ó">>, <<"ö">>, <<"ò">> >> >>,
       << <<"u">>, << <<"ú">>, <<"ü">>, <<"ù">> >> >>,
       << <<"n">>, << <<"ñ">> >> >> >>

\* replaceable_chars[""] = [string.lower() for string in sys.argv[3].split(",")]
\* "" is a new key, so its item comes last.
WithOmit(table, omit_arg) ==
    LET pieces == Split(omit_arg)
    IN  table \o << << <<>>, [i \in 1..Len(pieces) |-> Lower(pieces[i])] >> >>

\* ----------------------------------------------------------- tidy functions

\* The inner loop of tidy_string_def: one replacement's replaceables in turn.
RECURSIVE ReplaceAll(_, _, _)
ReplaceAll(s, replaceables, replacement) ==
    IF replaceables = <<>> THEN s
    ELSE ReplaceAll(Replace(s, Head(replaceables), replacement),
                    Tail(replaceables), replacement)

\* The outer loop of tidy_string_def: the items of replace_dict in turn.
RECURSIVE ApplyDict(_, _)
ApplyDict(s, replace_dict) ==
    IF replace_dict = <<>> THEN s
    ELSE ApplyDict(ReplaceAll(s, Head(replace_dict)[2], Head(replace_dict)[1]),
                   Tail(replace_dict))

\* A slip of tidy_string_def: the replacements made before lower().
tidy_string_def_lower_last(some_string, replace_dict) ==
    Strip(Lower(ApplyDict(some_string, replace_dict)))

tidy_string_def(some_string, replace_dict) ==
    Strip(ApplyDict(Lower(some_string), replace_dict))

\* ------------------------------------------------------------------- int()

Digits == {"0", "1", "2"}

DigitValue(ch) == CASE ch = "0" -> 0 [] ch = "1" -> 1 [] ch = "2" -> 2

RECURSIVE DigitsValue(_)
DigitsValue(s) ==
    IF s = <<>> THEN 0
    ELSE 10 * DigitsValue(SubSeq(s, 1, Len(s) - 1)) + DigitValue(s[Len(s)])

\* int(text): surrounding whitespace dropped, an optional sign, then digits;
\* raised is TRUE where int() raises ValueError.
ParseInt(text) ==
    LET t      == Strip(text)
        signed == t # <<>> /\ Head(t) \in {"-", "+"}
        digits == IF signed THEN Tail(t) ELSE t
    IN  IF digits = <<>> \/ \E i \in 1..Len(digits) : digits[i] \notin Digits
        THEN [raised |-> TRUE, value |-> 0]
        ELSE [raised |-> FALSE,
              value  |-> IF signed /\ Head(t) = "-"
                         THEN 0 - DigitsValue(digits)
                         ELSE DigitsValue(digits)]

\* [int(t_col) for t_col in text.split(",")]: the list, or ValueError raised.
ParseCols(text) ==
    LET pieces == Split(text)
        parsed == [i \in 1..Len(pieces) |-> ParseInt(pieces[i])]
    IN  [raised |-> \E i \in 1..Len(parsed) : parsed[i].raised,
         value  |-> [i \in 1..Len(parsed) |-> parsed[i].value]]

\* ------------------------------------------------------------------- dicts

Keys(d) == {d[i][1] : i \in 1..Len(d)}

\* d[key], for a key of d.
Get(d, key) == d[CHOOSE i \in 1..Len(d) : d[i][1] = key][2]

\* d.setdefault(key, default): d afterwards.
SetDefault(d, key, default) ==
    IF key \in Keys(d) THEN d ELSE Append(d, <<key, default>>)

\* d[key] = value: an existing key keeps its place, a new one goes last.
Put(d, key, value) ==
    IF key \in Keys(d)
    THEN [i \in 1..Len(d) |-> IF d[i][1] = key THEN <<key, value>> ELSE d[i]]
    ELSE Append(d, <<key, value>>)

\* ----------------------------------------------------------- core functions

\* Whether row[t_col] exists (IndexError otherwise): a negative index counts
\* from the end of the row.
HasField(row, t_col) ==
    IF t_col >= 0 THEN t_col < Len(row) ELSE 0 - t_col <= Len(row)

\* row[t_col], where it exists.
RowAt(row, t_col) ==
    IF t_col >= 0 THEN row[t_col + 1] ELSE row[Len(row) + t_col + 1]

\* A variant of the loop of add_answer_to_result that counts a token once
\* per field.
RECURSIVE CountAnswersOnce(_, _, _)
CountAnswersOnce(f_dict, answers, replace_dict) ==
    IF answers = <<>> THEN f_dict
    ELSE LET answer == tidy_string_def(Head(answers), replace_dict)
             later  == {tidy_string_def(answers[i], replace_dict) :
                            i \in 2..Len(answers)}
             seen   == SetDefault(f_dict, answer, 0)
         IN  CountAnswersOnce(IF answer \in later THEN f_dict
                              ELSE Put(seen, answer, Get(seen, answer) + 1),
                              Tail(answers), replace_dict)

\* A variant of the loop of add_answer_to_result with setdefault(answer, 1).
RECURSIVE CountAnswersFromOne(_, _, _)
CountAnswersFromOne(f_dict, answers, replace_dict) ==
    IF answers = <<>> THEN f_dict
    ELSE LET answer == tidy_string_def(Head(answers), replace_dict)
             seen   == SetDefault(f_dict, answer, 1)
         IN  CountAnswersFromOne(Put(seen, answer, Get(seen, answer) + 1),
                                 Tail(answers), replace_dict)

\* The loop of add_answer_to_result over the pieces of one field:
\* result[t_col][answer] = result[t_col].setdefault(answer, 0) + 1
RECURSIVE CountAnswers(_, _, _)
CountAnswers(f_dict, answers, replace_dict) ==
    IF answers = <<>> THEN f_dict
    ELSE LET answer == tidy_string_def(Head(answers), replace_dict)
             seen   == SetDefault(f_dict, answer, 0)
         IN  CountAnswers(Put(seen, answer, Get(seen, answer) + 1),
                          Tail(answers), replace_dict)

\* A variant of add_answer_to_result that deduplicates within the field.
add_answer_to_result_dedup(result, row, t_col, replace_dict) ==
    IF ~HasField(row, t_col) THEN [raised |-> TRUE, result |-> result]
    ELSE [raised |-> FALSE,
          result |-> Put(result, t_col,
                         CountAnswersOnce(Get(result, t_col),
                                          Split(RowAt(row, t_col)),
                                          replace_dict))]

\* add_answer_to_result with tidy_func = tidy_string_def: whether IndexError
\* was raised, and the result dict afterwards.
add_answer_to_result(result, row, t_col, replace_dict) ==
    IF ~HasField(row, t_col) THEN [raised |-> TRUE, result |-> result]
    ELSE [raised |-> FALSE,
          result |-> Put(result, t_col,
                         CountAnswers(Get(result, t_col),
                                      Split(RowAt(row, t_col)),
                                      replace_dict))]

\* The inner loop of read_csv_and_count: one row, the target columns in turn,
\* stopping at the first IndexError.
RECURSIVE CountRow(_, _, _, _)
CountRow(result, row, t_cols, replace_dict) ==
    IF t_cols = <<>> THEN [raised |-> FALSE, result |-> result]
    ELSE LET added == add_answer_to_result(result, row, Head(t_cols),
                                           replace_dict)
         IN  IF added.raised THEN added
             ELSE CountRow(added.result, row, Tail(t_cols), replace_dict)

\* result = {t_col: {} for t_col in t_cols}
RECURSIVE EmptyResult(_)
EmptyResult(t_cols) ==
    IF t_cols = <<>> THEN <<>>
    ELSE Put(EmptyResult(SubSeq(t_cols, 1, Len(t_cols) - 1)),
             t_cols[Len(t_cols)], <<>>)

\* reader.__next__() without the header being kept: the reader's position.
AfterHeaderKept(position) == position

\* reader.__next__(): the reader has moved past one more row.
AfterHeader(position) == position + 1

\* ------------------------------------------------------ create result output

\* ord() of the characters the model's inputs are written with.
CharCode(ch) ==
    CASE ch = "\t" -> 9
      [] ch = "\n" -> 10
      [] ch = " " -> 32
      [] ch = "+" -> 43
      [] ch = "," -> 44
      [] ch = "-" -> 45
      [] ch = "." -> 46
      [] ch = "0" -> 48
      [] ch = "1" -> 49
      [] ch = "2" -> 50
      [] ch = "A" -> 65
      [] ch = "B" -> 66
      [] ch = "C" -> 67
      [] ch = "D" -> 68
      [] ch = "E" -> 69
      [] ch = "F" -> 70
      [] ch = "G" -> 71
      [] ch = "O" -> 79
      [] ch = "a" -> 97
      [] ch = "b" -> 98
      [] ch = "c" -> 99
      [] ch = "d" -> 100
      [] ch = "e" -> 101
      [] ch = "f" -> 102
      [] ch = "g" -> 103
      [] ch = "m" -> 109
      [] ch = "n" -> 110
      [] ch = "o" -> 111
      [] ch = "p" -> 112
      [] ch = "s" -> 115
      [] ch = "t" -> 116
      [] ch = "x" -> 120
      [] ch = "Á" -> 193
      [] ch = "É" -> 201
      [] ch = "á" -> 225
      [] ch = "é" -> 233

\* s < t for two str: by code point, a proper prefix first.
RECURSIVE StrLess(_, _)
StrLess(s, t) ==
    IF t = <<>> THEN FALSE
    ELSE IF s = <<>> THEN TRUE
    ELSE IF Head(s) # Head(t) THEN CharCode(Head(s)) < CharCode(Head(t))
    ELSE StrLess(Tail(s), Tail(t))

\* x < y for two (key, count) items of a dict.
ItemLess(x, y) == StrLess(x[1], y[1]) \/ (x[1] = y[1] /\ x[2] < y[2])

\* sorted() is stable: an item goes after the items it is not less than.
RECURSIVE InsertItem(_, _)
InsertItem(x, sorted) ==
    IF sorted = <<>> THEN <<x>>
    ELSE IF ItemLess(x, Head(sorted)) THEN <<x>> \o sorted
    ELSE <<Head(sorted)>> \o InsertItem(x, Tail(sorted))

\* sorted(f_dict.items())
RECURSIVE AlphabeticalSorting(_)
AlphabeticalSorting(f_dict) ==
    IF f_dict = <<>> THEN <<>>
    ELSE InsertItem(f_dict[Len(f_dict)],
                    AlphabeticalSorting(SubSeq(f_dict, 1, Len(f_dict) - 1)))

\* With reverse=True an item goes after the items whose count is not less
\* than its own: equal counts keep the order of f_dict.items().
RECURSIVE InsertRanked(_, _)
InsertRanked(x, sorted) ==
    IF sorted = <<>> THEN <<x>>
    ELSE IF Head(sorted)[2] < x[2] THEN <<x>> \o sorted
    ELSE <<Head(sorted)>> \o InsertRanked(x, Tail(sorted))

\* A variant of the ranked sorting: sorted by count, then the list reversed.
RECURSIVE RankedSortingReversed(_)
RankedSortingReversed(f_dict) ==
    IF f_dict = <<>> THEN <<>>
    ELSE InsertRanked(Head(f_dict), RankedSortingReversed(Tail(f_dict)))

\* sorted(f_dict.items(), key=sort_val, reverse=True), sort_val the count.
RECURSIVE RankedSorting(_)
RankedSorting(f_dict) ==
    IF f_dict = <<>> THEN <<>>
    ELSE InsertRanked(f_dict[Len(f_dict)],
                      RankedSorting(SubSeq(f_dict, 1, Len(f_dict) - 1)))

\* The lines OUTPUT_FORMAT.format(idx, key, count) of one listing, each line
\* the three values it is formatted from; enumerate() counts from 0.
Listing(items) == [i \in 1..Len(items) |-> <<i - 1, items[i][1], items[i][2]>>]

\* The buffer sort_and_save_dict writes: one section per field of result.
Report(result) ==
    [i \in 1..Len(result) |->
        [field        |-> result[i][1],
         alphabetical |-> Listing(AlphabeticalSorting(result[i][2])),
         ranked       |-> Listing(RankedSorting(result[i][2]))]]

\* --------------------------------------------------------------- CLI-mode

VARIABLES
    argv,          \* sys.argv[1:]: the path, the target columns, the omit strings
    csv_rows,      \* the rows csv.reader yields from the file at an existing path
    cols_input,    \* the line input() returns in interactive mode
    pc,            \* the place of the script
    t_cols,        \* the target columns
    replace_dict,  \* replaceable_chars, as the script has it
    position,      \* rows the reader of read_csv_and_count has yielded
    counting,      \* result inside read_csv_and_count
    result,        \* result of the script
    out_file,      \* wordcount_result.txt
    stdout,        \* what the script has printed
    exit_status,   \* the status of the process once pc = "exit"
    some_string,   \* SpecTidy: the string given to tidy_string_def
    tidied         \* SpecTidy: the successive values of tidy_string_def

vars == <<argv, csv_rows, cols_input, pc, t_cols, replace_dict, position,
          counting, result, out_file, stdout, exit_status, some_string, tidied>>

\* The paths given to the script, and those that are files.
Paths == { <<"d", ".", "c", "s", "v">>, <<"d", ".", "t", "x", "t">>,
           <<"g", ".", "c", "s", "v">>, <<"g", ".", "t", "x", "t">> }

Files == { <<"d", ".", "c", "s", "v">>, <<"d", ".", "t", "x", "t">> }

\* os.path.isfile(path)
IsFile(path) == path \in Files

\* os.path.splitext(path)[-1].lower(): from the last dot on, if the path has one
\* after its first character.
Ext(path) ==
    LET dots == {i \in 2..Len(path) : path[i] = "."}
    IN  IF dots = {} THEN <<>>
        ELSE Lower(SubSeq(path, CHOOSE i \in dots : \A j \in dots : j <= i,
                          Len(path)))

\* The texts given as target columns: "0", "1", "0,1", "0,0", "2", "-1",
\* "x" and "".
ColsTexts == { <<"0">>, <<"1">>, <<"0", ",", "1">>, <<"0", ",", "0">>, <<"2">>,
               <<"-", "1">>, <<"x">>, <<>> }

\* The text given as omit strings: "Cat".
OmitTexts == { <<"C", "a", "t">> }

\* The header row: pets,name.
Header == << <<"p", "e", "t", "s">>, <<"n", "a", "m", "e">> >>

\* The data rows: ["dog,cat"], ["cat,DOG"], ["Café, café, CAFE", "Á"],
\* ["", " , "] and [] (a blank line).
DataRows ==
    { << <<"d", "o", "g", ",", "c", "a", "t">> >>,
      << <<"c", "a", "t", ",", "D", "O", "G">> >>,
      << <<"C", "a", "f", "é", ",", " ", "c", "a", "f", "é", ",", " ",
           "C", "A", "F", "E">>, <<"Á">> >>,
      << <<>>, <<" ", ",", " ">> >>,
      <<>> }

RECURSIVE RowSeqs(_)
RowSeqs(n) ==
    IF n = 0 THEN { <<>> }
    ELSE LET shorter == RowSeqs(n - 1)
         IN  shorter \cup {Append(rows, row) : rows \in shorter, row \in DataRows}

\* The files: an empty one, and a header followed by up to MaxRows data rows.
CsvFiles == { <<>> } \cup { <<Header>> \o rows : rows \in RowSeqs(MaxRows) }

NoFile == [written |-> FALSE, buffer |-> <<>>]

Init ==
    /\ \/ argv = <<>> /\ cols_input = <<>>
       \/ \E path \in Paths, text \in ColsTexts :
              \/ argv = <<path>> /\ cols_input = text
              \/ argv = <<path, text>> /\ cols_input = <<>>
              \/ \E omit \in OmitTexts :
                     argv = <<path, text, omit>> /\ cols_input = <<>>
    /\ IF argv # <<>> /\ IsFile(argv[1])
       THEN csv_rows \in CsvFiles
       ELSE csv_rows = <<>>
    /\ pc = "path"
    /\ t_cols = <<>>
    /\ replace_dict = replaceable_chars
    /\ position = 0
    /\ counting = <<>>
    /\ result = <<>>
    /\ out_file = NoFile
    /\ stdout = {}
    /\ exit_status = 0
    /\ some_string = <<>>
    /\ tidied = <<>>

\* sys.exit(): the status is 0.
SysExit ==
    /\ pc' = "exit"
    /\ exit_status' = 0

\* An exception nothing catches: the traceback, and the status is 1.
Uncaught ==
    /\ pc' = "exit"
    /\ exit_status' = 1

\* Unpack target path from argv.
UnpackPath ==
    /\ pc = "path"
    /\ IF Len(argv) < 1
       THEN /\ stdout' = stdout \cup {"usage"}
            /\ SysExit
       ELSE IF ~IsFile(argv[1]) /\ Ext(argv[1]) # <<".", "c", "s", "v">>
       THEN /\ stdout' = stdout \cup {"invalid path", "usage"}
            /\ SysExit
       ELSE /\ pc' = "cols"
            /\ UNCHANGED <<stdout, exit_status>>
    /\ UNCHANGED <<argv, csv_rows, cols_input, t_cols, replace_dict, position,
                   counting, result, out_file, some_string, tidied>>

\* The orders a set of target columns may be iterated in.
Orders(cols) ==
    {order \in [1..Cardinality(cols) -> cols] :
        \A i, j \in 1..Cardinality(cols) : i # j => order[i] # order[j]}

\* Unpack target columns from argv.
UnpackColsArgv ==
    /\ pc = "cols"
    /\ Len(argv) >= 2
    /\ LET parsed == ParseCols(argv[2])
       IN  IF parsed.raised
           THEN /\ stdout' = stdout \cup {"columns error", "usage"}
                /\ SysExit
                /\ UNCHANGED t_cols
           ELSE /\ t_cols' = parsed.value
                /\ pc' = "omit"
                /\ UNCHANGED <<stdout, exit_status>>
    /\ UNCHANGED <<argv, csv_rows, cols_input, replace_dict, position,
                   counting, result, out_file, some_string, tidied>>

\* input_target_columns: enter interactive mode to select.
UnpackColsInput ==
    /\ pc = "cols"
    /\ Len(argv) < 2
    /\ IF ~IsFile(argv[1]) \/ csv_rows = <<>>
       THEN \* open() or reader.__next__() raises
            /\ stdout' = stdout \cup {"choose"}
            /\ Uncaught
            /\ UNCHANGED t_cols
       ELSE IF cols_input = <<>>
       THEN /\ stdout' = stdout \cup {"choose", "headers"}
            /\ t_cols' = <<>>
            /\ pc' = "omit"
            /\ UNCHANGED exit_status
       ELSE LET parsed == ParseCols(cols_input)
            IN  IF parsed.raised
                THEN /\ stdout' = stdout \cup {"choose", "headers",
                                               "columns error", "usage"}
                     /\ SysExit
                     /\ UNCHANGED t_cols
                ELSE /\ stdout' = stdout \cup {"choose", "headers"}
                     /\ t_cols' \in Orders({parsed.value[i] :
                                               i \in 1..Len(parsed.value)})
                     /\ pc' = "omit"
                     /\ UNCHANGED exit_status
    /\ UNCHANGED <<argv, csv_rows, cols_input, replace_dict, position,
                   counting, result, out_file, some_string, tidied>>

\* Unpack omit strings from argv.
UnpackOmit ==
    /\ pc = "omit"
    /\ replace_dict' = IF Len(argv) >= 3
                       THEN WithOmit(replace_dict, argv[3])
                       ELSE replace_dict
    /\ pc' = "open"
    /\ UNCHANGED <<argv, csv_rows, cols_input, t_cols, position, counting,
                   result, out_file, stdout, exit_status, some_string, tidied>>

\* A variant of the handler whose traceback.print_exc() raises nothing: the
\* script goes on to sort_and_save_dict.
CaughtAndGoesOn ==
    /\ stdout' = stdout \cup {"analyzing error"}
    /\ pc' = "save"
    /\ UNCHANGED exit_status

\* except Exception as err: the error is printed, and then
\* traceback.print_exc(flush=True) raises TypeError, print_exc having no
\* parameter flush; nothing catches it.
Caught ==
    /\ stdout' = stdout \cup {"analyzing error"}
    /\ Uncaught

\* open(t_path), then read_csv_and_count up to its loop over the rows.
OpenAndReadHeader ==
    /\ pc = "open"
    /\ IF ~IsFile(argv[1]) \/ csv_rows = <<>>
       THEN \* open() or reader.__next__() raises
            /\ Caught
            /\ UNCHANGED <<position, counting>>
       ELSE /\ position' = AfterHeader(position)
            /\ counting' = EmptyResult(t_cols)
            /\ pc' = "rows"
            /\ UNCHANGED <<stdout, exit_status>>
    /\ UNCHANGED <<argv, csv_rows, cols_input, t_cols, replace_dict, result,
                   out_file, some_string, tidied>>

\* One turn of the loop over the rows of read_csv_and_count.
ReadRow ==
    /\ pc = "rows"
    /\ position < Len(csv_rows)
    /\ LET counted == CountRow(counting, csv_rows[position + 1], t_cols,
                               replace_dict)
       IN  /\ position' = position + 1
           /\ counting' = counted.result
           /\ IF counted.raised
              THEN Caught
              ELSE UNCHANGED <<pc, stdout, exit_status>>
    /\ UNCHANGED <<argv, csv_rows, cols_input, t_cols, replace_dict, result,
                   out_file, some_string, tidied>>

\* The reader is exhausted: read_csv_and_count returns its result.
ReturnResult ==
    /\ pc = "rows"
    /\ position = Len(csv_rows)
    /\ result' = counting
    /\ pc' = "save"
    /\ UNCHANGED <<argv, csv_rows, cols_input, t_cols, replace_dict, position,
                   counting, out_file, stdout, exit_status, some_string, tidied>>

\* sort_and_save_dict(result, "wordcount_result.txt"), and the script ends.
SortAndSave ==
    /\ pc = "save"
    /\ out_file' = [written |-> TRUE, buffer |-> Report(result)]
    /\ pc' = "exit"
    /\ exit_status' = 0
    /\ UNCHANGED <<argv, csv_rows, cols_input, t_cols, replace_dict, position,
                   counting, result, stdout, some_string, tidied>>

Next ==
    \/ UnpackPath
    \/ UnpackColsArgv
    \/ UnpackColsInput
    \/ UnpackOmit
    \/ OpenAndReadHeader
    \/ ReadRow
    \/ ReturnResult
    \/ SortAndSave

Spec == Init /\ [][Next]_vars

\* ------------------------------------------------- tidy_string_def alone

\* The characters of the strings given to tidy_string_def.
TidyChars == {"a", "b", "A", "á", "Á", " "}

RECURSIVE Strings(_)
Strings(n) ==
    IF n = 0 THEN { <<>> }
    ELSE LET shorter == Strings(n - 1)
         IN  shorter \cup {Append(s, ch) : s \in shorter, ch \in TidyChars}

\* The texts given as omit strings: "ab" and "B".
TidyOmitTexts == { <<"a", "b">>, <<"B">> }

InitTidy ==
    /\ some_string \in Strings(MaxLen)
    /\ \/ replace_dict = replaceable_chars
       \/ \E omit \in TidyOmitTexts :
              replace_dict = WithOmit(replaceable_chars, omit)
    /\ tidied = <<>>
    /\ argv = <<>>
    /\ csv_rows = <<>>
    /\ cols_input = <<>>
    /\ pc = "tidy"
    /\ t_cols = <<>>
    /\ position = 0
    /\ counting = <<>>
    /\ result = <<>>
    /\ out_file = NoFile
    /\ stdout = {}
    /\ exit_status = 0

\* tidy_string_def applied to some_string, then to its own last value.
Tidy ==
    /\ pc = "tidy"
    /\ Len(tidied) < MaxRuns
    /\ tidied' = Append(tidied,
                        tidy_string_def(IF tidied = <<>> THEN some_string
                                        ELSE tidied[Len(tidied)],
                                        replace_dict))
    /\ UNCHANGED <<argv, csv_rows, cols_input, pc, t_cols, replace_dict,
                   position, counting, result, out_file, stdout, exit_status,
                   some_string>>

NextTidy == Tidy

SpecTidy == InitTidy /\ [][NextTidy]_vars

\* ------------------------------------------------------------- properties

Dog == <<"d", "o", "g">>
Cat == <<"c", "a", "t">>
Cafe == <<"c", "a", "f", "e">>

\* The count of a token in a frequency table, 0 for a token it lacks.
Count(f_dict, token) == IF token \in Keys(f_dict) THEN Get(f_dict, token) ELSE 0

\* The tokens the pieces of a field are tidied to.
Tokens(value) ==
    {tidy_string_def(Split(value)[i], replace_dict) : i \in 1..Len(Split(value))}

\* How many pieces of a field are tidied to the token.
Occurrences(token, value) ==
    Cardinality({i \in 1..Len(Split(value)) :
                    tidy_string_def(Split(value)[i], replace_dict) = token})

\* How many times t_cols lists the column.
Listings(t_col) == Cardinality({j \in 1..Len(t_cols) : t_cols[j] = t_col})

\* Every token a field of any row of the file is tidied to.
AllTokens ==
    UNION {UNION {Tokens(csv_rows[i][j]) : j \in 1..Len(csv_rows[i])} :
              i \in 1..Len(csv_rows)}

\* How many times the data rows up to row `last` of the file yield the token
\* in the column.
RECURSIVE Produced(_, _, _)
Produced(t_col, token, last) ==
    IF last <= 1 THEN 0
    ELSE Produced(t_col, token, last - 1)
         + Occurrences(token, RowAt(csv_rows[last], t_col))

\* read_csv_and_count has returned its result to the script.
ReadReturned ==
    /\ "analyzing error" \notin stdout
    /\ \/ pc = "save"
       \/ pc = "exit" /\ out_file.written

\* No key twice in a dict.
UniqueKeys(d) == \A i, j \in 1..Len(d) : d[i][1] = d[j][1] => i = j

\* The data rows are ["dog,cat"] and ["cat,DOG"], and column 0 is selected.
DogCatRun ==
    /\ t_cols = <<0>>
    /\ replace_dict = replaceable_chars
    /\ csv_rows = << Header,
                     << <<"d", "o", "g", ",", "c", "a", "t">> >>,
                     << <<"c", "a", "t", ",", "D", "O", "G">> >> >>

\* C1: when read_csv_and_count returns, every selected column has a frequency
\* table, and the count of a token in it is the number of times the pieces of
\* that column's values, over all data rows, were tidied to that token, once
\* for each time the selection lists the column; the rows ["dog,cat"] and
\* ["cat,DOG"] give exactly {"dog": 2, "cat": 2}.
C1_CountsEqualProductions ==
    ReadReturned =>
        /\ Keys(result) = {t_cols[j] : j \in 1..Len(t_cols)}
        /\ UniqueKeys(result)
        /\ \A t_col \in Keys(result) :
               /\ UniqueKeys(Get(result, t_col))
               /\ \A token \in AllTokens \cup Keys(Get(result, t_col)) :
                      Count(Get(result, t_col), token)
                          = Listings(t_col)
                            * Produced(t_col, token, Len(csv_rows))
        /\ DogCatRun =>
               /\ Keys(Get(result, 0)) = {Dog, Cat}
               /\ Get(Get(result, 0), Dog) = 2
               /\ Get(Get(result, 0), Cat) = 2

C1_Witness ==
    /\ pc = "exit"
    /\ ReadReturned
    /\ DogCatRun
    /\ result = << <<0, << <<Dog, 2>>, <<Cat, 2>> >> >> >>

\* A turn of the loop over the rows that raised nothing.
RowCounted ==
    /\ pc = "rows"
    /\ pc' = "rows"
    /\ position' = position + 1

\* C2 as amended: tokens are not deduplicated within a field: counting a data
\* row raises the count of a token, in each selected column, by the number of
\* pieces of the field tidied to that token, once for each time the selection
\* lists the column.
C2_EveryPieceCounts ==
    [][RowCounted =>
          \A t_col \in Keys(counting) :
              \A token \in AllTokens :
                  Count(Get(counting', t_col), token)
                      = Count(Get(counting, t_col), token)
                        + Listings(t_col)
                          * Occurrences(token, RowAt(csv_rows[position'], t_col))
      ]_vars

\* C2 as claimed: counting a data row raises the count of every token of the
\* field (the empty string apart), in a column selected once, by exactly 1.
C2_DeduplicatedWithinField ==
    [][RowCounted =>
          \A t_col \in Keys(counting) :
              Listings(t_col) = 1 =>
                  \A token \in Tokens(RowAt(csv_rows[position'], t_col))
                                   \ { <<>> } :
                      Count(Get(counting', t_col), token)
                          = Count(Get(counting, t_col), token) + 1
      ]_vars

\* The row ["Café, café, CAFE", "Á"] has been counted in column 0, selected
\* once: {"cafe": 3}.
C2_Witness ==
    /\ pc = "rows"
    /\ position = 2
    /\ t_cols = <<0>>
    /\ Occurrences(Cafe, RowAt(csv_rows[2], 0)) = 3
    /\ counting = << <<0, << <<Cafe, 3>> >> >> >>

\* C3: the first row is consumed as the header and never counted, and every
\* row after it is: while the rows are read the tables hold the counts of
\* the data rows read so far, rows 2 to position of the file, and the
\* result returned holds those of all the rows after the first.
C3_HeaderSkippedRowsCounted ==
    /\ pc = "rows" =>
           /\ position >= 1
           /\ \A t_col \in Keys(counting) :
                  \A token \in AllTokens \cup Keys(Get(counting, t_col)) :
                      Count(Get(counting, t_col), token)
                          = Listings(t_col) * Produced(t_col, token, position)
    /\ ReadReturned =>
           /\ position = Len(csv_rows)
           /\ result = counting

\* Both data rows have been counted in column 0, and no token of the header
\* row has a count.
C3_Witness ==
    /\ pc = "rows"
    /\ position = 3
    /\ 0 \in Keys(counting)
    /\ Keys(Get(counting, 0)) # {}
    /\ \A t_col \in Keys(counting) :
           \A j \in 1..Len(Header) :
               Tokens(Header[j]) \cap Keys(Get(counting, t_col)) = {}

\* The place of a key among the items of a dict.
IndexOf(d, key) == CHOOSE i \in 1..Len(d) : d[i][1] = key

\* C4 as amended: the ranked listing of a column holds every item of its
\* frequency table once, in descending order of count, and two tokens with
\* equal counts appear in the order they were inserted into the table.
C4_RankedByCountThenInsertion ==
    out_file.written =>
        \A i \in 1..Len(out_file.buffer) :
            LET ranked == out_file.buffer[i].ranked
                f_dict == Get(result, out_file.buffer[i].field)
            IN  /\ Len(ranked) = Len(f_dict)
                /\ \A k \in 1..Len(ranked) :
                       /\ ranked[k][1] = k - 1
                       /\ ranked[k][2] \in Keys(f_dict)
                       /\ ranked[k][3] = Get(f_dict, ranked[k][2])
                /\ \A k, l \in 1..Len(ranked) :
                       k < l =>
                           \/ ranked[k][3] > ranked[l][3]
                           \/ /\ ranked[k][3] = ranked[l][3]
                              /\ IndexOf(f_dict, ranked[k][2])
                                     < IndexOf(f_dict, ranked[l][2])

\* C4 as claimed: descending order of count, and two tokens with equal counts
\* in ascending lexical order.
C4_RankedByCountThenToken ==
    out_file.written =>
        \A i \in 1..Len(out_file.buffer) :
            LET ranked == out_file.buffer[i].ranked
            IN  \A k, l \in 1..Len(ranked) :
                    k < l =>
                        \/ ranked[k][3] > ranked[l][3]
                        \/ /\ ranked[k][3] = ranked[l][3]
                           /\ StrLess(ranked[k][2], ranked[l][2])

\* A ranked listing with a higher count first and, among equal counts, a
\* token before one that is lexically smaller.
C4_Witness ==
    /\ out_file.written
    /\ \E i \in 1..Len(out_file.buffer) :
           LET ranked == out_file.buffer[i].ranked
           IN  /\ \E k, l \in 1..Len(ranked) :
                      k < l /\ ranked[k][3] > ranked[l][3]
               /\ \E k, l \in 1..Len(ranked) :
                      /\ k < l
                      /\ ranked[k][3] = ranked[l][3]
                      /\ StrLess(ranked[l][2], ranked[k][2])

\* C5: after an error during the read pass the run exits with a non-zero
\* status and the report is never written: sort_and_save_dict is not reached.
C5_FailedReadWritesNoReport ==
    "analyzing error" \in stdout =>
        /\ pc = "exit"
        /\ exit_status # 0
        /\ ~out_file.written

\* A data row lacked a selected column, and the run has ended.
C5_Witness ==
    /\ "analyzing error" \in stdout
    /\ pc = "exit"
    /\ position >= 2
    /\ \E j \in 1..Len(t_cols) : ~HasField(csv_rows[position], t_cols[j])

\* C6: a selected column index equal to or greater than the number of header
\* fields makes the run fail with a column error before any data row is
\* read, and nothing is written.
C6_OutOfRangeColumnRejected ==
    (/\ pc = "exit"
     /\ csv_rows # <<>>
     /\ \E j \in 1..Len(t_cols) : t_cols[j] >= Len(csv_rows[1])) =>
        /\ "columns error" \in stdout
        /\ position <= 1
        /\ ~out_file.written

\* C7: with an empty answer in interactive mode every column of the CSV is
\* counted and the report has exactly one section per header.
C7_EmptyAnswerSelectsAllColumns ==
    (/\ pc = "exit"
     /\ Len(argv) = 1
     /\ cols_input = <<>>
     /\ ReadReturned) =>
        /\ Keys(result) = 0..(Len(csv_rows[1]) - 1)
        /\ Len(out_file.buffer) = Len(csv_rows[1])

\* A field that is empty or holds only whitespace and separators.
EmptyValue(value) ==
    \A i \in 1..Len(value) : value[i] \in Whitespace \cup {","}

\* C8: counting a data row whose selected column is empty, or holds only
\* whitespace and separators, leaves that column's frequency table as it
\* was.
C8_EmptyFieldAddsNothing ==
    [][RowCounted =>
          \A t_col \in Keys(counting) :
              EmptyValue(RowAt(csv_rows[position'], t_col)) =>
                  Get(counting', t_col) = Get(counting, t_col)
      ]_vars

\* C9 as amended: with the accent table alone (no omit strings) tidying a
\* tidied string gives the same string.
C9_IdempotentWithAccentTable ==
    replace_dict = replaceable_chars =>
        \A i \in 2..Len(tidied) : tidied[i] = tidied[i - 1]

\* C9 as claimed: with any replacement table of a run, omit strings
\* included, tidying a tidied string gives the same string.
C9_Idempotent ==
    \A i \in 2..Len(tidied) : tidied[i] = tidied[i - 1]

\* A string with an upper-case accented letter and surrounding whitespace
\* tidied twice with the accent table alone.
C9_Witness ==
    /\ replace_dict = replaceable_chars
    /\ Len(tidied) >= 2
    /\ some_string = <<" ", "Á", "b", " ">>
    /\ tidied[1] = <<"a", "b">>

\* C10: a path that is missing, is not a file, or has not the .csv
\* extension makes the run print the usage and exit with a non-zero status
\* before any processing: no file is read and no report is written.
C10_InvalidPathAborts ==
    (/\ pc = "exit"
     /\ \/ Len(argv) < 1
        \/ ~IsFile(argv[1])
        \/ Ext(argv[1]) # <<".", "c", "s", "v">>) =>
        /\ "usage" \in stdout
        /\ exit_status # 0
        /\ position = 0
        /\ ~out_file.written

====
